---- MODULE Spec2Model ----
(***************************************************************************)
(* A model of gwmemory/utils.py: the Planck-taper window generator planck, *)
(* the single-sided FFT wrapper nfft, the SXS waveform loader              *)
(* load_sxs_waveform and the version stamp reader get_version_information. *)
(*                                                                         *)
(* The module has no retained state: every function is a function of its   *)
(* arguments and of the files it reads.  The state machine is therefore a  *)
(* caller that is idle (fn = "none"), calls one of the functions with      *)
(* arguments drawn from bounded sets, and then holds the arguments, the    *)
(* function's locals and its outcome until it goes back to idle.           *)
(*                                                                         *)
(* Numbers.  The taper fraction e is a binary fraction eNum / EDen with    *)
(* EDen a power of two, so that e and the product e * (M - 1) are exact in *)
(* IEEE doubles and floor(e * (M - 1)) is the integer the code computes.   *)
(* A window element is either the literal 0.0, the literal 1.0, or the     *)
(* taper value 1 / (exp(t2/k + t2/(k - t2)) + 1), kept symbolically by     *)
(* (t2, k): two taper elements are the same double when they come from the *)
(* same (t2, k).  For 1 <= k < t2 < 38 the exponent lies within (-37, 37), *)
(* where the double result is strictly between 0 and 1.                    *)
(***************************************************************************)
EXTENDS Integers, Sequences, FiniteSets, TLC

VARIABLES fn, args, loc, ret

vars == <<fn, args, loc, ret>>

(***************************************************************************)
(* Bounds of the model.                                                    *)
(***************************************************************************)
MaxM == 9
EExp == 3
MaxN == 5
MaxModes == 2
MaxFileLen == 4

RECURSIVE Pow2(_)
Pow2(n) == IF n = 0 THEN 1 ELSE 2 * Pow2(n - 1)

\* e = eNum / EDen, eNum in ENums: e ranges over [-1/2, 2] in steps of 1/EDen
EDen == Pow2(EExp)
ENums == (0 - EDen \div 2) .. (2 * EDen)
Ms == (0 - 1) .. MaxM

(***************************************************************************)
(* Outcomes of a call.                                                     *)
(***************************************************************************)
Return(v) == [kind |-> "return", value |-> v, exc |-> "", printed |-> <<>>]
Raise(x) == [kind |-> "raise", value |-> <<>>, exc |-> x, printed |-> <<>>]

Min(a, b) == IF a <= b THEN a ELSE b
Reverse(s) == [i \in 1..Len(s) |-> s[Len(s) + 1 - i]]

(***************************************************************************)
(* planck                                                                  *)
(***************************************************************************)
Zero == [kind |-> "zero", t2 |-> 0, k |-> 0]
One == [kind |-> "one", t2 |-> 0, k |-> 0]
\* 1 / (exp(t2 / k + t2 / (k - t2)) + 1)
Taper(t2, k) == [kind |-> "taper", t2 |-> t2, k |-> k]

\* np.ones(n): n ones, ValueError for a negative n (reported by the caller)
ones(n) == [i \in 1..n |-> One]

\* if M < 1: return np.array([]);  if M < 3: return np.ones(M, "d")
planck_degenerate_zero_ends(M) == IF M < 1 THEN <<>> ELSE [i \in 1..M |-> Zero]
planck_degenerate(M) == IF M < 1 THEN <<>> ELSE ones(M)

\* odd = M % 2; if not sym and not odd: M = M + 1
planck_M_internal_no_extend(M, sym) == M
planck_M_internal(M, sym) == IF ~sym /\ M % 2 = 0 THEN M + 1 ELSE M

\* t2 = min(M // 2, int(np.floor(e * (M - 1))))
planck_t2_no_min(Mi, eNum) == (eNum * (Mi - 1)) \div EDen
planck_t2_ceil(Mi, eNum) == Min(Mi \div 2, (eNum * (Mi - 1) + EDen - 1) \div EDen)
planck_t2(Mi, eNum) == Min(Mi \div 2, (eNum * (Mi - 1)) \div EDen)

\* w1 = np.arange(1, t2); w1 = t2 / w1 + t2 / (w1 - t2); w1 = 1 / (np.exp(w1) + 1)
planck_w1(t2) == [k \in 1..(t2 - 1) |-> Taper(t2, k)]

\* the length handed to np.ones: M - 2 - len(w1) * 2
planck_w2len(Mi, w1) == Mi - 2 - Len(w1) * 2

\* w3 = w1[::-1]; w = np.concatenate(([0.0], w1, w2, w3, [0.0]))
planck_concatenate_no_ends(w1, w2) == w1 \o w2 \o Reverse(w1)
planck_concatenate(w1, w2) == <<Zero>> \o w1 \o w2 \o Reverse(w1) \o <<Zero>>

\* if not sym and not odd: w = w[:-1]
planck_trim(w, M, sym) ==
    IF ~sym /\ M % 2 = 0 THEN SubSeq(w, 1, Len(w) - 1) ELSE w

\* the locals of planck on the path M >= 3
planck_locals(M, eNum, sym) ==
    LET Mi == planck_M_internal(M, sym)
        t2 == planck_t2(Mi, eNum)
        w1 == planck_w1(t2)
        n2 == planck_w2len(Mi, w1)
        w2 == ones(n2)
    IN  [path |-> "taper", odd |-> M % 2, M |-> Mi, t2 |-> t2, w1 |-> w1,
         w2len |-> n2,
         w |-> IF n2 < 0 THEN <<>> ELSE planck_concatenate(w1, w2)]

planck(M, eNum, sym) ==
    IF M < 3 THEN Return(planck_degenerate(M))
    ELSE LET l == planck_locals(M, eNum, sym)
         IN  IF l.w2len < 0 THEN Raise("ValueError")
             ELSE Return(planck_trim(l.w, M, sym))

call_planck ==
    /\ fn = "none"
    /\ \E M \in Ms, eNum \in ENums, sym \in BOOLEAN :
         /\ fn' = "planck"
         /\ args' = [M |-> M, eNum |-> eNum, sym |-> sym]
         /\ loc' = IF M < 3 THEN [path |-> "degenerate"]
                   ELSE planck_locals(M, eNum, sym)
         /\ ret' = planck(M, eNum, sym)

(***************************************************************************)
(* Properties of planck.                                                   *)
(***************************************************************************)
PlanckCalled == fn = "planck"
PeriodicEven == ~args.sym /\ args.M % 2 = 0
\* e >= 0.5
EAtLeastHalf == 2 * args.eNum >= EDen

\* C1: for every M >= 3, every e and both values of sym, planck returns
\* without error a sequence of length exactly M: the flat-interior length
\* M_internal - 2 - 2*len(w1) is never negative, the concatenation
\* [0.0], w1, w2, w3, [0.0] has length M_internal, and in the periodic
\* even-M case (M_internal = M + 1) the result after dropping the last
\* element has length M.
C1_PlanckLength ==
    (PlanckCalled /\ args.M >= 3) =>
        /\ ret.kind = "return"
        /\ Len(ret.value) = args.M
        /\ loc.w2len >= 0
        /\ Len(loc.w) = loc.M
        /\ loc.M = (IF PeriodicEven THEN args.M + 1 ELSE args.M)

\* a periodic even-M call with e >= 0.5 whose taper segments are not empty
C1_Witness ==
    /\ PlanckCalled /\ args.M >= 3
    /\ PeriodicEven /\ EAtLeastHalf
    /\ Len(loc.w1) >= 2
    /\ ret.kind = "return"

\* C2 (as claimed): for every M >= 3, every e and both values of sym, the
\* first and the last element of the returned window are exactly 0.0.
C2_EndsAreZero ==
    (PlanckCalled /\ args.M >= 3) =>
        /\ ret.kind = "return"
        /\ ret.value[1] = Zero
        /\ ret.value[Len(ret.value)] = Zero

\* C2 (amended): for every M >= 3 and every e the first element of the
\* returned window is exactly 0.0, and the last element is exactly 0.0
\* whenever sym is true or M is odd; in the periodic even-M case the
\* closing 0.0 is the element that is dropped, and the window ends with the
\* element before it.
C2_EndsAreZeroUnlessTrimmed ==
    (PlanckCalled /\ args.M >= 3) =>
        /\ ret.kind = "return"
        /\ ret.value[1] = Zero
        /\ ~PeriodicEven => ret.value[Len(ret.value)] = Zero
        /\ PeriodicEven =>
              /\ loc.w[Len(loc.w)] = Zero
              /\ ret.value[Len(ret.value)] = loc.w[Len(loc.w) - 1]

\* a periodic even-M window, whose last element is not the closing zero
C2_Witness ==
    /\ PlanckCalled /\ args.M >= 3
    /\ PeriodicEven
    /\ ret.kind = "return"
    /\ ret.value[1] = Zero
    /\ ret.value[Len(ret.value)] # Zero

\* C3: for the degenerate sizes planck ignores e and sym and never raises:
\* for every M <= 0 it returns the empty sequence, and for M = 1 and M = 2
\* a sequence of exactly M ones (no zero end points, no taper).
C3_Degenerate ==
    (PlanckCalled /\ args.M < 3) =>
        /\ ret.kind = "return"
        /\ args.M <= 0 => ret.value = <<>>
        /\ args.M >= 1 =>
              /\ Len(ret.value) = args.M
              /\ \A i \in 1..Len(ret.value) : ret.value[i] = One

\* planck(2, e, sym=False) with a negative e: two ones
C3_Witness ==
    /\ PlanckCalled /\ args.M = 2 /\ ~args.sym /\ args.eNum < 0
    /\ ret.kind = "return" /\ ret.value = <<One, One>>

\* C4: for every even M >= 4 and every e, the periodic window
\* planck(M, e, sym=False) is element for element the first M elements of
\* the symmetric window planck(M+1, e, sym=True): t2, w1 and the flat
\* interior are those of the length M+1, and only the final element is
\* discarded.
C4_PeriodicIsSymmetricPrefix ==
    (PlanckCalled /\ args.M >= 4 /\ PeriodicEven) =>
        LET s == planck(args.M + 1, args.eNum, TRUE)
            l == planck_locals(args.M + 1, args.eNum, TRUE)
        IN  /\ ret.kind = "return"
            /\ s.kind = "return"
            /\ Len(s.value) = args.M + 1
            /\ ret.value = SubSeq(s.value, 1, args.M)
            /\ loc.t2 = l.t2
            /\ loc.w1 = l.w1
            /\ loc.w2len = l.w2len

\* a periodic even-M window with both a taper and a flat interior
C4_Witness ==
    /\ PlanckCalled /\ args.M >= 4 /\ PeriodicEven
    /\ Len(loc.w1) >= 1 /\ loc.w2len >= 1
    /\ ret.kind = "return" /\ Len(ret.value) = args.M

C6_NoOneEvenSymmetric ==
    (PlanckCalled /\ args.M >= 4 /\ args.M % 2 = 0 /\ args.sym
        /\ EAtLeastHalf) =>
        /\ ret.kind = "return"
        /\ \A i \in 1..Len(ret.value) : ret.value[i] # One

(***************************************************************************)
(* nfft                                                                    *)
(***************************************************************************)
SeqsUpTo(S, n) == UNION {[1..k -> S] : k \in 0..n}
Samples == {0, 1}
SamplingFrequencies == {1, 2}

\* if np.mod(len(ht), 2) == 1: ht = np.append(ht, 0)
nfft_pad_never(ht) == ht
nfft_pad(ht) == IF Len(ht) % 2 = 1 THEN Append(ht, 0) ELSE ht

\* int(LL / 2 + 1): LL / 2 is a float, int() drops the fraction
nfft_nbins(LL) == (LL + 2) \div 2

\* np.linspace(0, 1, n): n evenly spaced points from 0 to 1, as fractions
linspace01(n) ==
    [i \in 1..n |-> IF n = 1 THEN [num |-> 0, den |-> 1]
                    ELSE [num |-> i - 1, den |-> n - 1]]

\* ff = sampling_frequency / 2 * np.linspace(0, 1, int(LL / 2 + 1))
nfft_ff(LL, fs) ==
    LET g == linspace01(nfft_nbins(LL))
    IN  [i \in 1..Len(g) |-> [num |-> fs * g[i].num, den |-> 2 * g[i].den]]

\* np.fft.rfft(x): the bins 0 .. len(x) // 2 of the transform of x, each kept
\* as (bin, x); an empty x is refused with ValueError (reported by nfft)
rfft(x) == [k \in 1..(Len(x) \div 2 + 1) |-> [bin |-> k - 1, x |-> x, over |-> 1]]

\* hf = hf / sampling_frequency
nfft_normalise(hf, fs) == [k \in 1..Len(hf) |-> [hf[k] EXCEPT !.over = fs]]

nfft_locals(ht, fs) ==
    LET p == nfft_pad(ht)
    IN  [path |-> "nfft", ht |-> p, LL |-> Len(p)]

nfft(ht, fs) ==
    LET l == nfft_locals(ht, fs)
    IN  IF l.LL = 0 THEN Raise("ValueError")
        ELSE Return([hf |-> nfft_normalise(rfft(l.ht), fs),
                     ff |-> nfft_ff(l.LL, fs)])

call_nfft ==
    /\ fn = "none"
    /\ \E ht \in SeqsUpTo(Samples, MaxN), fs \in SamplingFrequencies :
         /\ fn' = "nfft"
         /\ args' = [ht |-> ht, sampling_frequency |-> fs]
         /\ loc' = nfft_locals(ht, fs)
         /\ ret' = nfft(ht, fs)

\* C7: for every input of length N >= 1 and positive sampling frequency,
\* nfft pads an odd-length input with exactly one trailing zero (an
\* even-length input is not padded) and returns a spectrum and a frequency
\* grid of the same length floor((N+1)/2) + 1, the spectrum's length being
\* that of the one-sided real FFT of the padded series.
C7_NfftLengths ==
    (fn = "nfft" /\ Len(args.ht) >= 1) =>
        LET N == Len(args.ht)
        IN  /\ ret.kind = "return"
            /\ N % 2 = 1 => loc.ht = args.ht \o <<0>>
            /\ N % 2 = 0 => loc.ht = args.ht
            /\ Len(ret.value.hf) = (N + 1) \div 2 + 1
            /\ Len(ret.value.ff) = (N + 1) \div 2 + 1
            /\ Len(ret.value.hf) = Len(loc.ht) \div 2 + 1
            /\ \A k \in 1..Len(ret.value.hf) : ret.value.hf[k].x = loc.ht

\* an odd-length series whose last sample is not zero
C7_Witness ==
    /\ fn = "nfft" /\ Len(args.ht) = 3 /\ args.ht[3] = 1
    /\ ret.kind = "return"
    /\ Len(loc.ht) = 4 /\ loc.ht[4] = 0
    /\ Len(ret.value.hf) = 3

(***************************************************************************)
(* load_sxs_waveform                                                       *)
(***************************************************************************)
\* "Y_l{}_m{}.dat".format(ell, mm)
Key(mode) == <<"Y_l", mode[1], "_m", mode[2], ".dat">>

\* for ell in range(2, 5): for mm in range(-ell, ell + 1)
ModesOfDegree(ell) == [i \in 1..(2 * ell + 1) |-> <<ell, i - ell - 1>>]
DefaultModes == ModesOfDegree(2) \o ModesOfDegree(3) \o ModesOfDegree(4)
DefaultModeSet == {DefaultModes[i] : i \in 1..Len(DefaultModes)}

\* The archives: a dataset is a table of rows (time, real, imaginary).  The
\* datasets of an archive are those of the default modes less a set of
\* missing ones, with or without one of degree 5; the time column of a
\* dataset is one of two grids.
TimeGridA == <<0, 1>>
TimeGridB == <<0, 3>>
Table(mode, grid) ==
    [i \in 1..Len(grid) |-> <<grid[i], 10 * mode[1] + i, mode[2] - i>>]
MaybeMissing == {<<2, 2>>, <<3, 0>>}
MaybeShifted == {<<2, 2>>, <<2, 0 - 2>>}
ExtraMode == <<5, 5>>
Archive(hasExtraction, missing, extra, shifted) ==
    [hasExtraction |-> hasExtraction,
     datasets |->
        [k \in {Key(m) : m \in (DefaultModeSet \ missing) \cup extra} |->
            LET m == <<k[2], k[4]>>
            IN  Table(m, IF m \in shifted THEN TimeGridB ELSE TimeGridA)]]
Archives ==
    {Archive(h, ms, ex, sh) :
        h \in BOOLEAN, ms \in SUBSET MaybeMissing,
        ex \in SUBSET {ExtraMode}, sh \in SUBSET MaybeShifted}

\* the modes argument: None, or a sequence of (ell, m) tuples
RequestedModes == {<<2, 2>>, <<2, 0 - 2>>, <<3, 0>>, ExtraMode}
ModesArgs ==
    {[given |-> FALSE, seq |-> <<>>]}
        \cup {[given |-> TRUE, seq |-> q] : q \in SeqsUpTo(RequestedModes, MaxModes)}

\* mode_array[:, c] (c counted from 0)
Column(table, c) == [i \in 1..Len(table) |-> table[i][c + 1]]
\* mode_array[:, 1] + 1j * mode_array[:, 2]
ComplexSeries(table) ==
    [i \in 1..Len(table) |-> [re |-> table[i][2], im |-> table[i][3]]]

\* waveform[extraction]["Y_l{}_m{}.dat".format(mode[0], mode[1])]
load_lookup(archive, mode) ==
    IF ~archive.hasExtraction THEN Raise("KeyError")
    ELSE IF Key(mode) \notin DOMAIN archive.datasets THEN Raise("KeyError")
    ELSE Return(archive.datasets[Key(mode)])

\* waveform[extraction]["Y_l{}_m{}.dat".format(ell, mm)[:, 1:]]: the slice
\* [:, 1:] is applied to the formatted str, which refuses a tuple index
load_lookup_default(archive, mode) ==
    IF ~archive.hasExtraction THEN Raise("KeyError")
    ELSE Raise("TypeError")

\* output[mode] = mode_array[:, 1] + 1j * mode_array[:, 2], with mode_array
\* rebound to the dataset just read
load_bind_first(acc, mode, table) ==
    [output |-> [m \in DOMAIN acc.output \cup {mode} |->
                    IF m = mode THEN ComplexSeries(table) ELSE acc.output[m]],
     mode_array |-> IF acc.bound THEN acc.mode_array ELSE table,
     bound |-> TRUE]
load_bind(acc, mode, table) ==
    [output |-> [m \in DOMAIN acc.output \cup {mode} |->
                    IF m = mode THEN ComplexSeries(table) ELSE acc.output[m]],
     mode_array |-> table,
     bound |-> TRUE]

\* times = mode_array[:, 0]; return output, times
load_finish(acc) ==
    IF ~acc.bound THEN Raise("UnboundLocalError")
    ELSE Return([output |-> acc.output, times |-> Column(acc.mode_array, 0)])

\* output = dict(), mode_array not yet bound
load_start == [output |-> <<>>, mode_array |-> <<>>, bound |-> FALSE]

RECURSIVE load_explicit(_, _, _, _)
load_explicit(archive, modes, i, acc) ==
    IF i > Len(modes) THEN load_finish(acc)
    ELSE LET r == load_lookup(archive, modes[i])
         IN  IF r.kind = "raise" THEN r
             ELSE load_explicit(archive, modes, i + 1,
                                load_bind(acc, modes[i], r.value))

RECURSIVE load_default(_, _, _)
load_default(archive, i, acc) ==
    IF i > Len(DefaultModes) THEN load_finish(acc)
    ELSE LET r == load_lookup_default(archive, DefaultModes[i])
         IN  IF r.kind = "raise" THEN r
             ELSE load_default(archive, i + 1,
                               load_bind(acc, DefaultModes[i], r.value))

load_sxs_waveform(archive, modes) ==
    IF ~modes.given THEN load_default(archive, 1, load_start)
    ELSE load_explicit(archive, modes.seq, 1, load_start)

call_load_sxs_waveform ==
    /\ fn = "none"
    /\ \E archive \in Archives, modes \in ModesArgs :
         /\ fn' = "load_sxs_waveform"
         /\ args' = [waveform |-> archive, modes |-> modes]
         /\ loc' = [path |-> IF modes.given THEN "explicit" ELSE "default"]
         /\ ret' = load_sxs_waveform(archive, modes)

LoadCalled == fn = "load_sxs_waveform"
Present(mode) ==
    /\ args.waveform.hasExtraction
    /\ Key(mode) \in DOMAIN args.waveform.datasets
DatasetOf(mode) == args.waveform.datasets[Key(mode)]

\* C8: called with modes omitted on an archive that holds every dataset
\* Y_l<ell>_m<m>.dat for ell in 2..4 and m in -ell..ell under the extraction
\* key, load_sxs_waveform reads one dataset per mode and returns a mapping
\* whose key set is exactly those 21 (ell, m) pairs, each mapped to the
\* complex series real + i*imaginary, together with the time grid.
C8_DefaultModesLoaded ==
    (LoadCalled /\ ~args.modes.given
        /\ \A m \in DefaultModeSet : Present(m)) =>
        /\ ret.kind = "return"
        /\ DOMAIN ret.value.output = DefaultModeSet
        /\ Cardinality(DOMAIN ret.value.output) = 21
        /\ \A m \in DefaultModeSet :
              ret.value.output[m] = ComplexSeries(DatasetOf(m))
        /\ \E m \in DefaultModeSet : ret.value.times = Column(DatasetOf(m), 0)

\* C10: called with an explicit non-empty sequence of modes that are all
\* present in the archive, load_sxs_waveform returns a mapping with exactly
\* the requested modes as keys, and the time grid is the time column of the
\* last mode in iteration order, whatever the time columns of the other
\* modes; if the key of any requested mode is absent from the archive the
\* lookup error propagates and nothing is returned.
C10_ExplicitModes ==
    (LoadCalled /\ args.modes.given /\ Len(args.modes.seq) >= 1) =>
        LET q == args.modes.seq
            asked == {q[i] : i \in 1..Len(q)}
        IN  /\ (\A m \in asked : Present(m)) =>
                  /\ ret.kind = "return"
                  /\ DOMAIN ret.value.output = asked
                  /\ \A m \in asked :
                        ret.value.output[m] = ComplexSeries(DatasetOf(m))
                  /\ ret.value.times = Column(DatasetOf(q[Len(q)]), 0)
            /\ (\E m \in asked : ~Present(m)) =>
                  /\ ret.kind = "raise"
                  /\ ret.exc = "KeyError"
                  /\ ret.value = <<>>

\* two requested modes whose time columns differ: the call returns, with
\* the time column of the second
C10_Witness ==
    /\ LoadCalled /\ args.modes.given /\ Len(args.modes.seq) = 2
    /\ Present(args.modes.seq[1]) /\ Present(args.modes.seq[2])
    /\ Column(DatasetOf(args.modes.seq[1]), 0)
          # Column(DatasetOf(args.modes.seq[2]), 0)
    /\ ret.kind = "return"
    /\ ret.value.times = Column(DatasetOf(args.modes.seq[2]), 0)

(***************************************************************************)
(* get_version_information                                                 *)
(***************************************************************************)
Chars == {"1", " ", "\n"}
Whitespace == {" ", "\t", "\n", "\r"}
NoVersionMessage == "No version information file '.version' found"

\* The .version file beside the module: absent, not openable, failing while
\* it is read, not decodable as text, or a text.
VersionFiles ==
    {[state |-> k, content |-> <<>>] :
        k \in {"missing", "denied", "readfail", "undecodable"}}
    \cup {[state |-> "ok", content |-> c] : c \in SeqsUpTo(Chars, MaxFileLen)}

\* what open(version_file, "r") and f.readline() raise, "" when they succeed
OpenError(file) ==
    IF file.state = "missing" THEN "FileNotFoundError"
    ELSE IF file.state = "denied" THEN "PermissionError"
    ELSE ""
ReadError(file) ==
    IF file.state = "readfail" THEN "OSError"
    ELSE IF file.state = "undecodable" THEN "UnicodeDecodeError"
    ELSE ""

\* except EnvironmentError: OSError and its subclasses
IsFileNotFoundOnly(exc) == exc = "FileNotFoundError"
IsEnvironmentError(exc) ==
    exc \in {"OSError", "FileNotFoundError", "PermissionError"}

\* f.readline(): up to and including the first newline
RECURSIVE readline(_)
readline(c) ==
    IF c = <<>> THEN <<>>
    ELSE IF Head(c) = "\n" THEN <<"\n">>
    ELSE <<Head(c)>> \o readline(Tail(c))

\* str.rstrip(): trailing whitespace removed
RECURSIVE rstrip(_)
rstrip(s) ==
    IF s # <<>> /\ s[Len(s)] \in Whitespace
    THEN rstrip(SubSeq(s, 1, Len(s) - 1))
    ELSE s

\* the function's value: None, or a str
None == [none |-> TRUE, str |-> <<>>]
Str(s) == [none |-> FALSE, str |-> s]

\* print(...) in the handler, after which the function falls off its end
version_handler(exc) ==
    IF IsEnvironmentError(exc)
    THEN [kind |-> "return", value |-> None, exc |-> "",
          printed |-> <<NoVersionMessage>>]
    ELSE Raise(exc)

get_version_information(file) ==
    IF OpenError(file) # "" THEN version_handler(OpenError(file))
    ELSE IF ReadError(file) # "" THEN version_handler(ReadError(file))
    ELSE Return(Str(rstrip(readline(file.content))))

call_get_version_information ==
    /\ fn = "none"
    /\ \E file \in VersionFiles :
         /\ fn' = "get_version_information"
         /\ args' = [version_file |-> file]
         /\ loc' = [path |-> file.state]
         /\ ret' = get_version_information(file)

\* s is the first line of c less its trailing whitespace
IsStrippedFirstLine(c, s) ==
    LET nl == {i \in 1..Len(c) : c[i] = "\n"}
        end == IF nl = {} THEN Len(c)
               ELSE CHOOSE i \in nl : \A j \in nl : i <= j
    IN  /\ Len(s) <= end
        /\ s = SubSeq(c, 1, Len(s))
        /\ \A i \in (Len(s) + 1)..end : c[i] \in Whitespace
        /\ s = <<>> \/ s[Len(s)] \notin Whitespace

\* C9: get_version_information never propagates an I/O failure: if the
\* .version file is missing or cannot be opened or read, the error is
\* caught, one diagnostic message is printed and the function returns None;
\* if the file is readable it returns its first line with trailing
\* whitespace removed and prints nothing.
C9_VersionNeverPropagatesIO ==
    (fn = "get_version_information") =>
        LET file == args.version_file
        IN  /\ file.state \in {"missing", "denied", "readfail"} =>
                  /\ ret.kind = "return"
                  /\ ret.value = None
                  /\ ret.printed = <<NoVersionMessage>>
            /\ file.state = "ok" =>
                  /\ ret.kind = "return"
                  /\ ~ret.value.none
                  /\ ret.printed = <<>>
                  /\ IsStrippedFirstLine(file.content, ret.value.str)

\* a file that cannot be opened for lack of permission: None and one message
C9_Witness ==
    /\ fn = "get_version_information"
    /\ args.version_file.state = "denied"
    /\ ret.kind = "return" /\ ret.value = None /\ Len(ret.printed) = 1

(***************************************************************************)
(* The caller.                                                             *)
(***************************************************************************)
NoRec == [path |-> "none"]

Init ==
    /\ fn = "none"
    /\ args = NoRec
    /\ loc = NoRec
    /\ ret = NoRec

done ==
    /\ fn # "none"
    /\ fn' = "none"
    /\ args' = NoRec
    /\ loc' = NoRec
    /\ ret' = NoRec

Next ==
    \/ call_planck
    \/ call_nfft
    \/ call_load_sxs_waveform
    \/ call_get_version_information
    \/ done

Spec == Init /\ [][Next]_vars

====
